---- MODULE Spec2Model ----
(***************************************************************************)
(* CulturIA, generar_trivia.py: the daily trivia generator.                *)
(*                                                                         *)
(* The module models                                                       *)
(*   - the history file (historial.json) as a sequence of cells, written   *)
(*     by open(..., "w") + json.dump and read back by json.load;           *)
(*   - generate_trivia as a state machine, one action per step of the      *)
(*     function, for one process started again and again (Spec) and for    *)
(*     two processes started on the same day over the same file (SpecConc);*)
(*   - parse_response and get_previous_questions as operators, applied to  *)
(*     inputs drawn from bounded sets (SpecParse, SpecFence, SpecPrev).    *)
(***************************************************************************)
EXTENDS Integers, Sequences, FiniteSets, TLC

VARIABLES
    now,            \* the clock, in hours since the epoch, UTC
    env_key,        \* whether GROQ_API_KEY is set in the environment of the run
    fileExists,     \* os.path.exists(HISTORIAL_PATH)
    file,           \* the cells of historial.json
    pc,             \* per process: where generate_trivia is
    historial,      \* per process: the local list 'historial'
    dia_number,     \* per process: the local 'dia_number'
    fecha_hoy,      \* per process: the local 'fecha_hoy'
    prev_questions, \* per process: the local 'prev_questions'
    raw_text,       \* per process: the local 'raw_text'
    off,            \* per process: the offset of the open file object
    calls,          \* per process: calls of client.chat.completions.create in this run
    runs,           \* how many runs have been started
    file0,          \* history variable: the file as it was when the run started
    prevRun,        \* history variable: outcome, date and file of the previous run
    fn_arg,         \* the argument of the pure function under check
    fn_ret,         \* its result
    fn_done         \* whether it has been applied

vars == <<now, env_key, fileExists, file, pc, historial, dia_number, fecha_hoy,
          prev_questions, raw_text, off, calls, runs, file0, prevRun,
          fn_arg, fn_ret, fn_done>>

procVars == <<pc, historial, dia_number, fecha_hoy, prev_questions, raw_text, off, calls>>
fnVars == <<fn_arg, fn_ret, fn_done>>

----------------------------------------------------------------------------
(* Bounds of the model.                                                    *)

\* the clock stops at this hour
MaxNow == 49
\* runs of generate_trivia in one behaviour of Spec
MaxRuns == 4
\* tokens of a raw text in SpecFence
MaxTextLen == 6
\* entries of "preguntas" in the payloads of SpecParse
MaxPreguntas == 4
\* options of a question in the payloads of SpecParse
MaxOpciones == 4
\* days of a history in SpecPrev
MaxDias == 22

(* Constants of the program.                                               *)

\* MADRID_TZ = timezone(timedelta(hours=1))
TzOffsetHours == 1
\* strftime("%Y-%m-%d"): the date changes every 24 hours
HoursPerDay == 24
MAX_CONTEXT_QUESTIONS == 60
\* len(data["preguntas"]) == 3
NumPreguntas == 3

Procs == {1, 2}

----------------------------------------------------------------------------
(* Sequences.                                                              *)

Last(s) == s[Len(s)]

RECURSIVE Flatten(_)
Flatten(ss) == IF ss = << >> THEN << >> ELSE Head(ss) \o Flatten(Tail(ss))

----------------------------------------------------------------------------
(* JSON values.  A value is a record tagged by its JSON type 't'.          *)

Str(s) == [t |-> "str", s |-> s]
AbsentStr == [t |-> "absent", s |-> << >>]
List(items) == [t |-> "list", items |-> items]
AbsentList == [t |-> "absent", items |-> << >>]
\* a scalar: v is the number, 0/1 for false/true, and the integer part of a
\* fractional number n.5
Scalar(t, v) == [t |-> t, v |-> v]
AbsentScalar == [t |-> "absent", v |-> 0]

HasKey(x) == x.t # "absent"

\* n option strings
Opciones(n) == List([i \in 1..n |-> Str(<<"o", i>>)])

Question(p, o, r) == [pregunta |-> p, opciones |-> o, respuesta_correcta |-> r]

\* the object the model answers with; t is the type of the top-level value
Data(t, p, m) == [t |-> t, preguntas |-> p, mensaje_burla |-> m]
NoData == Data("none", AbsentList, AbsentStr)

----------------------------------------------------------------------------
(* parse_response.  A raw text is a sequence of tokens: the fence marker,  *)
(* a space, a line break, a word, or a whole serialized JSON document     *)
(* "doc" carrying the value json.loads gives for it.                       *)

Tok(c) == [c |-> c, data |-> NoData]
Doc(d) == [c |-> "doc", data |-> d]
FENCE == Tok("fence")
SP == Tok(" ")
NL == Tok("\n")
WORD == Tok("json")

IsSpace(tok) == tok.c \in {" ", "\n"}

\* str.lstrip / str.rstrip / str.strip
RECURSIVE LStrip(_)
LStrip(s) == IF s # << >> /\ IsSpace(Head(s)) THEN LStrip(Tail(s)) ELSE s
RECURSIVE RStrip(_)
RStrip(s) == IF s # << >> /\ IsSpace(Last(s)) THEN RStrip(SubSeq(s, 1, Len(s) - 1)) ELSE s
Strip(s) == RStrip(LStrip(s))

\* str.startswith(three backticks)
StartsWithFence(s) == s # << >> /\ Head(s).c = "fence"

\* str.split("\n"): the lines, line breaks dropped; always at least one line
RECURSIVE SplitLines(_, _)
SplitLines(s, cur) ==
    IF s = << >> THEN <<cur>>
    ELSE IF Head(s).c = "\n" THEN <<cur>> \o SplitLines(Tail(s), << >>)
    ELSE SplitLines(Tail(s), Append(cur, Head(s)))
Split(s) == SplitLines(s, << >>)

\* "\n".join(lines)
RECURSIVE Join(_)
Join(lines) ==
    IF lines = << >> THEN << >>
    ELSE IF Len(lines) = 1 THEN Head(lines)
    ELSE Head(lines) \o <<NL>> \o Join(Tail(lines))


\* line 107 without the l.strip()
KeepLineNoStrip(l) == ~ StartsWithFence(l)

\* [l for l in lines if not l.strip().startswith(three backticks)]
KeepLine(l) == ~ StartsWithFence(Strip(l))
DropFenceLines(lines) == SelectSeq(lines, KeepLine)

\* lines 103-108: the text json.loads is given
Cleaned(text) ==
    LET cleaned == Strip(text)
    IN  IF StartsWithFence(cleaned) THEN Join(DropFenceLines(Split(cleaned)))
        ELSE cleaned

Ok(d) == [ok |-> TRUE, err |-> "", data |-> d]
Err(e) == [ok |-> FALSE, err |-> e, data |-> NoData]

\* json.loads: one document, with JSON whitespace allowed around it
JsonLoads(s) ==
    LET body == Strip(s)
    IN  IF Len(body) = 1 /\ body[1].c = "doc" THEN Ok(body[1].data)
        ELSE Err("JSONDecodeError")

\* isinstance(x, int): bool is a subclass of int in Python
IsInstanceInt(x) == x.t \in {"int", "bool"}

\* 0 <= x < n, where True is 1 and False is 0
IndexInRange(x, n) == 0 <= x.v /\ x.v < n

\* the asserts of one question, lines 118-123
QuestionOk(q) ==
    /\ HasKey(q.pregunta)
    /\ HasKey(q.opciones)
    /\ HasKey(q.respuesta_correcta)
    /\ Len(q.opciones.items) \in {2, 3}
    /\ IsInstanceInt(q.respuesta_correcta)
    /\ IndexInRange(q.respuesta_correcta, Len(q.opciones.items))

\* lines 113-125
Validate(data) ==
    IF data.t = "number" THEN Err("TypeError")            \* "preguntas" in 5
    ELSE IF data.t = "array" THEN Err("AssertionError")   \* "preguntas" in []
    ELSE IF ~ HasKey(data.preguntas) THEN Err("AssertionError")
    ELSE IF ~ HasKey(data.mensaje_burla) THEN Err("AssertionError")
    ELSE IF Len(data.preguntas.items) # NumPreguntas THEN Err("AssertionError")
    ELSE IF \E i \in 1..Len(data.preguntas.items) : ~ QuestionOk(data.preguntas.items[i])
         THEN Err("AssertionError")
    ELSE Ok(data)

\* def parse_response(text)
ParseResponse(text) ==
    LET loaded == JsonLoads(Cleaned(text))
    IN  IF loaded.ok THEN Validate(loaded.data) ELSE loaded

----------------------------------------------------------------------------
(* The history: a list of day records, most recent first.                  *)

Day(d, f, p, m) == [dia |-> d, fecha |-> f, preguntas |-> p, mensaje_burla |-> m]

\* day.get("preguntas", [])
GetPreguntas(day) == IF HasKey(day.preguntas) THEN day.preguntas.items ELSE << >>

\* def get_previous_questions(historial, max_questions): the two nested loops,
\* at day d and question i of it, with 'questions' collected so far
RECURSIVE ScanQuestions(_, _, _, _, _)
ScanQuestions(h, d, i, questions, max_questions) ==
    IF d > Len(h) THEN questions
    ELSE IF i > Len(GetPreguntas(h[d]))
         THEN ScanQuestions(h, d + 1, 1, questions, max_questions)
    ELSE LET appended == Append(questions, GetPreguntas(h[d])[i].pregunta)
         IN  IF Len(appended) >= max_questions THEN appended
             ELSE ScanQuestions(h, d, i + 1, appended, max_questions)


\* line 49 with > for >=
GetPreviousQuestionsLate(h, max_questions) == ScanQuestions(h, 1, 1, << >>, max_questions + 1)

GetPreviousQuestions(h, max_questions) == ScanQuestions(h, 1, 1, << >>, max_questions)

\* datetime.now(MADRID_TZ).strftime("%Y-%m-%d") at clock t: the number of the
\* calendar day at the fixed offset UTC+1
FechaAt(t) == (t + TzOffsetHours) \div HoursPerDay

----------------------------------------------------------------------------
(* historial.json.  The file is a sequence of cells, the units in which    *)
(* json.dump's output reaches the file: "[", then per day a cell with the  *)
(* day's number, date and questions, one cell per character of its         *)
(* mensaje_burla and an "end" cell, then "]".  Days so differ in length.   *)

Cell(k, v) == [k |-> k, v |-> v]

DumpDay(day) ==
    <<Cell("day", [dia |-> day.dia, fecha |-> day.fecha, preguntas |-> day.preguntas])>>
    \o [i \in 1..Len(day.mensaje_burla.s) |-> Cell("chr", day.mensaje_burla.s[i])]
    \o <<Cell("end", 0)>>

\* json.dump(data, f, ...): what is written, in order
JsonDump(data) ==
    <<Cell("[", 0)>> \o Flatten([i \in 1..Len(data) |-> DumpDay(data[i])]) \o <<Cell("]", 0)>>

LoadOk(h) == [ok |-> TRUE, hist |-> h]
LoadErr == [ok |-> FALSE, hist |-> << >>]

\* the characters of a mensaje_burla from cell i on
RECURSIVE LoadChars(_, _)
LoadChars(cells, i) ==
    IF i <= Len(cells) /\ cells[i].k = "chr" THEN <<cells[i].v>> \o LoadChars(cells, i + 1)
    ELSE << >>

\* the days from cell i on, up to the closing "]", which must end the file
RECURSIVE LoadDays(_, _, _)
LoadDays(cells, i, acc) ==
    IF i > Len(cells) THEN LoadErr
    ELSE IF cells[i].k = "]" THEN (IF i = Len(cells) THEN LoadOk(acc) ELSE LoadErr)
    ELSE IF cells[i].k = "day"
         THEN LET m == LoadChars(cells, i + 1)
                  e == i + 1 + Len(m)
              IN  IF e <= Len(cells) /\ cells[e].k = "end"
                  THEN LoadDays(cells, e + 1,
                           Append(acc, Day(cells[i].v.dia, cells[i].v.fecha,
                                           cells[i].v.preguntas, Str(m))))
                  ELSE LoadErr
    ELSE LoadErr

\* json.load(f): fails (JSONDecodeError) on anything but one complete array
JsonLoad(cells) ==
    IF cells = << >> \/ cells[1].k # "[" THEN LoadErr ELSE LoadDays(cells, 2, << >>)

\* def load_historial()
LoadHistorial(exists, cells) == IF exists THEN JsonLoad(cells) ELSE LoadOk(<< >>)

\* f.write of one cell at offset o of a file opened on its own: the file
\* grows when o is at its end, and is padded with NUL when o is past it
WriteAt(cells, o, c) ==
    IF o < Len(cells) THEN [cells EXCEPT ![o + 1] = c]
    ELSE cells \o [i \in 1..(o - Len(cells)) |-> Cell("nul", 0)] \o <<c>>

----------------------------------------------------------------------------
(* What the remote model may answer.                                       *)

GoodQuestions ==
    List(<<Question(Str(<<"q", 1>>), Opciones(3), Scalar("int", 0)),
           Question(Str(<<"q", 2>>), Opciones(2), Scalar("int", 1)),
           Question(Str(<<"q", 3>>), Opciones(3), Scalar("int", 2))>>)

\* a valid answer whose mensaje_burla has n characters
GoodData(n) == Data("object", GoodQuestions, Str([i \in 1..n |-> "j"]))

\* an answer with two questions only
ShortData == Data("object", List(SubSeq(GoodQuestions.items, 1, 2)), Str(<<"j">>))

Responses ==
    { <<Doc(GoodData(1))>>,
      <<FENCE, WORD, NL, Doc(GoodData(2)), NL, FENCE>>,
      <<Doc(ShortData)>>,
      <<WORD>> }

----------------------------------------------------------------------------
(* generate_trivia.                                                        *)

Terminal ==
    {"DONE", "FAILED_NO_CREDENTIAL", "SKIPPED_DUPLICATE_DAY", "FAILED_TRANSPORT",
     "FAILED_VALIDATION", "FAILED_STORAGE", "INTERRUPTED"}


\* line 140 without the + 1
DiaNumberStale(h) == IF h # << >> THEN h[1].dia ELSE 1

\* line 140
DiaNumber(h) == IF h # << >> THEN h[1].dia + 1 ELSE 1


\* line 143 looking at the oldest record instead of the front one
AlreadyTodayOldest(h, f) == h # << >> /\ h[Len(h)].fecha = f

\* line 143 comparing the front record's "dia" instead of its "fecha"
AlreadyTodayByDia(h, f) == h # << >> /\ h[1].dia = f

\* line 143
AlreadyToday(h, f) == h # << >> /\ h[1].fecha = f


\* line 185 appending instead of inserting at the front
InsertLast(h, day) == Append(h, day)

\* line 185: historial.insert(0, new_day)
Insert0(h, day) == <<day>> \o h

\* lines 177-182
NewDay(d, f, new_data) == Day(d, f, new_data.preguntas, new_data.mensaje_burla)

\* lines 131-134
CheckCredential(p) ==
    /\ pc[p] = "start"
    /\ pc' = [pc EXCEPT ![p] = IF env_key[p] THEN "load" ELSE "FAILED_NO_CREDENTIAL"]
    /\ UNCHANGED <<now, env_key, fileExists, file, historial, dia_number, fecha_hoy,
                   prev_questions, raw_text, off, calls, runs, file0, prevRun, fnVars>>

\* lines 137-150: load the file, number the day, read the date, skip or go on
\* to build the prompt.  An unparsable file raises JSONDecodeError out of
\* load_historial, which nothing catches.
LoadAndCheck(p) ==
    /\ pc[p] = "load"
    /\ LET r == LoadHistorial(fileExists, file)
           f == FechaAt(now)
       IN  IF ~ r.ok
           THEN /\ pc' = [pc EXCEPT ![p] = "FAILED_STORAGE"]
                /\ UNCHANGED <<historial, dia_number, fecha_hoy, prev_questions>>
           ELSE /\ historial' = [historial EXCEPT ![p] = r.hist]
                /\ dia_number' = [dia_number EXCEPT ![p] = DiaNumber(r.hist)]
                /\ fecha_hoy' = [fecha_hoy EXCEPT ![p] = f]
                /\ IF AlreadyToday(r.hist, f)
                   THEN /\ pc' = [pc EXCEPT ![p] = "SKIPPED_DUPLICATE_DAY"]
                        /\ UNCHANGED prev_questions
                   ELSE /\ pc' = [pc EXCEPT ![p] = "call"]
                        /\ prev_questions' = [prev_questions EXCEPT ![p] =
                               GetPreviousQuestions(r.hist, MAX_CONTEXT_QUESTIONS)]
    /\ UNCHANGED <<now, env_key, fileExists, file, raw_text, off, calls, runs,
                   file0, prevRun, fnVars>>

\* lines 153-166: the call returns a text
CallModelOk(p) ==
    /\ pc[p] = "call"
    /\ \E text \in Responses : raw_text' = [raw_text EXCEPT ![p] = text]
    /\ calls' = [calls EXCEPT ![p] = @ + 1]
    /\ pc' = [pc EXCEPT ![p] = "parse"]
    /\ UNCHANGED <<now, env_key, fileExists, file, historial, dia_number, fecha_hoy,
                   prev_questions, off, runs, file0, prevRun, fnVars>>


\* lines 155-163 calling again after a failed call
CallModelRetry(p) ==
    /\ pc[p] = "call"
    /\ calls' = [calls EXCEPT ![p] = @ + 1]
    /\ UNCHANGED <<now, env_key, fileExists, file, pc, historial, dia_number, fecha_hoy,
                   prev_questions, raw_text, off, runs, file0, prevRun, fnVars>>

\* lines 155-163: the call raises (network, timeout, status); nothing catches it
CallModelFail(p) ==
    /\ pc[p] = "call"
    /\ calls' = [calls EXCEPT ![p] = @ + 1]
    /\ pc' = [pc EXCEPT ![p] = "FAILED_TRANSPORT"]
    /\ UNCHANGED <<now, env_key, fileExists, file, historial, dia_number, fecha_hoy,
                   prev_questions, raw_text, off, runs, file0, prevRun, fnVars>>

\* lines 169-185: parse and validate; exit 1 on failure (a TypeError is not
\* caught and ends the process as well), else build the day and insert it
ParseAndInsert(p) ==
    /\ pc[p] = "parse"
    /\ LET r == ParseResponse(raw_text[p])
       IN  IF ~ r.ok
           THEN /\ pc' = [pc EXCEPT ![p] = "FAILED_VALIDATION"]
                /\ UNCHANGED historial
           ELSE /\ historial' = [historial EXCEPT ![p] =
                       Insert0(@, NewDay(dia_number[p], fecha_hoy[p], r.data))]
                /\ pc' = [pc EXCEPT ![p] = "open"]
    /\ UNCHANGED <<now, env_key, fileExists, file, dia_number, fecha_hoy,
                   prev_questions, raw_text, off, calls, runs, file0, prevRun, fnVars>>

\* line 39: open(HISTORIAL_PATH, "w") creates the file or truncates it
SaveOpen(p) ==
    /\ pc[p] = "open"
    /\ fileExists' = TRUE
    /\ file' = << >>
    /\ off' = [off EXCEPT ![p] = 0]
    /\ pc' = [pc EXCEPT ![p] = "write"]
    /\ UNCHANGED <<now, env_key, historial, dia_number, fecha_hoy, prev_questions,
                   raw_text, calls, runs, file0, prevRun, fnVars>>

\* line 40: the next cell of json.dump's output reaches the file
SaveWrite(p) ==
    /\ pc[p] = "write"
    /\ off[p] < Len(JsonDump(historial[p]))
    /\ file' = WriteAt(file, off[p], JsonDump(historial[p])[off[p] + 1])
    /\ off' = [off EXCEPT ![p] = @ + 1]
    /\ UNCHANGED <<now, env_key, fileExists, pc, historial, dia_number, fecha_hoy,
                   prev_questions, raw_text, calls, runs, file0, prevRun, fnVars>>

\* lines 39-40, 188-193: everything is written, the file is closed
SaveClose(p) ==
    /\ pc[p] = "write"
    /\ off[p] = Len(JsonDump(historial[p]))
    /\ pc' = [pc EXCEPT ![p] = "DONE"]
    /\ UNCHANGED <<now, env_key, fileExists, file, historial, dia_number, fecha_hoy,
                   prev_questions, raw_text, off, calls, runs, file0, prevRun, fnVars>>

\* the process is killed, or a write raises (disk full, UnicodeEncodeError
\* of a lone surrogate under ensure_ascii=False): the run ends where it is
Interrupt(p) ==
    /\ pc[p] \notin Terminal \cup {"off"}
    /\ pc' = [pc EXCEPT ![p] = "INTERRUPTED"]
    /\ UNCHANGED <<now, env_key, fileExists, file, historial, dia_number, fecha_hoy,
                   prev_questions, raw_text, off, calls, runs, file0, prevRun, fnVars>>

\* time passes
Tick ==
    /\ now < MaxNow
    /\ now' = now + 1
    /\ UNCHANGED <<env_key, fileExists, file, procVars, runs, file0, prevRun, fnVars>>

\* the scheduler starts the script again, in a new process
StartRun(p) ==
    /\ pc[p] \in Terminal
    /\ runs < MaxRuns
    /\ runs' = runs + 1
    /\ \E k \in BOOLEAN : env_key' = [env_key EXCEPT ![p] = k]
    /\ prevRun' = [outcome |-> pc[p], fecha |-> fecha_hoy[p],
                   len0 |-> Len(LoadHistorial(file0.exists, file0.cells).hist)]
    /\ file0' = [exists |-> fileExists, cells |-> file]
    /\ pc' = [pc EXCEPT ![p] = "start"]
    /\ historial' = [historial EXCEPT ![p] = << >>]
    /\ dia_number' = [dia_number EXCEPT ![p] = 0]
    /\ fecha_hoy' = [fecha_hoy EXCEPT ![p] = -1]
    /\ prev_questions' = [prev_questions EXCEPT ![p] = << >>]
    /\ raw_text' = [raw_text EXCEPT ![p] = << >>]
    /\ off' = [off EXCEPT ![p] = 0]
    /\ calls' = [calls EXCEPT ![p] = 0]
    /\ UNCHANGED <<now, fileExists, file, fnVars>>

NoFn == /\ fn_arg = << >>
        /\ fn_ret = << >>
        /\ fn_done = FALSE

InitLocals ==
    /\ historial = [p \in Procs |-> << >>]
    /\ dia_number = [p \in Procs |-> 0]
    /\ fecha_hoy = [p \in Procs |-> -1]
    /\ prev_questions = [p \in Procs |-> << >>]
    /\ raw_text = [p \in Procs |-> << >>]
    /\ off = [p \in Procs |-> 0]
    /\ calls = [p \in Procs |-> 0]
    /\ prevRun = [outcome |-> "none", fecha |-> -1, len0 |-> 0]

\* one process, started again and again, over a history that starts empty:
\* no file, or a file holding the empty list
Init ==
    /\ now = 0
    /\ env_key \in [Procs -> BOOLEAN]
    /\ env_key[2] = FALSE
    /\ fileExists \in BOOLEAN
    /\ file = IF fileExists THEN JsonDump(<< >>) ELSE << >>
    /\ pc = [p \in Procs |-> IF p = 1 THEN "start" ELSE "off"]
    /\ runs = 1
    /\ file0 = [exists |-> fileExists, cells |-> file]
    /\ InitLocals
    /\ NoFn

Next ==
    \/ CheckCredential(1)
    \/ LoadAndCheck(1)
    \/ CallModelOk(1)
    \/ CallModelFail(1)
    \/ ParseAndInsert(1)
    \/ SaveOpen(1)
    \/ SaveWrite(1)
    \/ SaveClose(1)
    \/ Interrupt(1)
    \/ Tick
    \/ StartRun(1)

Spec == Init /\ [][Next]_vars

----------------------------------------------------------------------------
(* Two instances of the script started on the same day over the same file, *)
(* with no lock: each runs generate_trivia once.                           *)

\* a day written on the day before the clock's
OldDay == Day(1, 0, GoodQuestions, Str(<<"j">>))

InitConc ==
    /\ now = HoursPerDay
    /\ env_key \in [Procs -> BOOLEAN]
    /\ \E h \in {<< >>, <<OldDay>>} :
          /\ fileExists \in BOOLEAN
          /\ file = IF fileExists THEN JsonDump(h) ELSE << >>
          /\ (h # << >> => fileExists)
    /\ pc = [p \in Procs |-> "start"]
    /\ runs = 0
    /\ file0 = [exists |-> fileExists, cells |-> file]
    /\ InitLocals
    /\ NoFn

NextConc ==
    \E p \in Procs :
        \/ CheckCredential(p)
        \/ LoadAndCheck(p)
        \/ CallModelOk(p)
        \/ CallModelFail(p)
        \/ ParseAndInsert(p)
        \/ SaveOpen(p)
        \/ SaveWrite(p)
        \/ SaveClose(p)

SpecConc == InitConc /\ [][NextConc]_vars

----------------------------------------------------------------------------
(* The pure functions, applied to inputs drawn from bounded sets.          *)

\* no process runs
Idle ==
    /\ now = 0
    /\ env_key = [p \in Procs |-> FALSE]
    /\ fileExists = FALSE
    /\ file = << >>
    /\ pc = [p \in Procs |-> "off"]
    /\ runs = 0
    /\ file0 = [exists |-> FALSE, cells |-> << >>]
    /\ InitLocals

GoodQuestion == GoodQuestions.items[1]

\* every shape one entry of "preguntas" may have
AnyQuestion ==
    { Question(p, o, r) :
        p \in {Str(<<"q", 1>>), AbsentStr},
        o \in {Opciones(n) : n \in 0..MaxOpciones} \cup {AbsentList},
        r \in {Scalar("int", v) : v \in -1..MaxOpciones}
              \cup {Scalar("bool", 0), Scalar("bool", 1), Scalar("str", 0),
                    Scalar("null", 0), Scalar("float", 0), Scalar("float", 1),
                    AbsentScalar} }

\* the lists of up to MaxPreguntas entries, all good but one of any shape
AnyPreguntas ==
    { List([i \in 1..n |-> IF i = k THEN q ELSE GoodQuestion]) :
        n \in 0..MaxPreguntas, k \in 1..MaxPreguntas, q \in AnyQuestion }
    \cup {AbsentList}

AnyData ==
    { Data("object", p, m) : p \in AnyPreguntas, m \in {Str(<<"j">>), AbsentStr} }
    \cup {Data("array", AbsentList, AbsentStr), Data("number", AbsentList, AbsentStr)}

\* the raw texts of SpecParse: any JSON document, or no JSON at all
InitParse ==
    /\ Idle
    /\ fn_arg \in {<<Doc(d)>> : d \in AnyData} \cup {<<WORD>>}
    /\ fn_ret = << >>
    /\ fn_done = FALSE

\* new_data = parse_response(raw_text), exceptions included
ApplyParse ==
    /\ ~ fn_done
    /\ fn_ret' = ParseResponse(fn_arg)
    /\ fn_done' = TRUE
    /\ UNCHANGED <<now, env_key, fileExists, file, procVars, runs, file0, prevRun, fn_arg>>

SpecParse == InitParse /\ [][ApplyParse]_vars

FenceTokens == {FENCE, SP, NL, WORD, Doc(GoodData(1)), Doc(ShortData)}

\* the raw texts of SpecFence: every text of up to MaxTextLen tokens
InitFence ==
    /\ Idle
    /\ \E n \in 0..MaxTextLen : fn_arg \in [1..n -> FenceTokens]
    /\ fn_ret = << >>
    /\ fn_done = FALSE

SpecFence == InitFence /\ [][ApplyParse]_vars

\* n questions of the day numbered dia
DayQuestions(dia, n) ==
    List([i \in 1..n |-> Question(Str(<<"q", dia, i>>), Opciones(2), Scalar("int", 0))])

\* a history of n days of NumPreguntas questions each, but for day s, which
\* has k questions, or no "preguntas" at all when k is -1
History(n, s, k) ==
    [d \in 1..n |->
        Day(n - d + 1, n - d,
            IF d # s THEN DayQuestions(n - d + 1, NumPreguntas)
            ELSE IF k < 0 THEN AbsentList ELSE DayQuestions(n - d + 1, k),
            Str(<<"j">>))]

InitPrev ==
    /\ Idle
    /\ \E n \in 0..MaxDias, s \in 0..MaxDias, k \in -1..NumPreguntas :
          /\ s <= n
          /\ fn_arg = History(n, s, k)
    /\ fn_ret = << >>
    /\ fn_done = FALSE

\* prev_questions = get_previous_questions(historial)
ApplyPrev ==
    /\ ~ fn_done
    /\ fn_ret' = GetPreviousQuestions(fn_arg, MAX_CONTEXT_QUESTIONS)
    /\ fn_done' = TRUE
    /\ UNCHANGED <<now, env_key, fileExists, file, procVars, runs, file0, prevRun, fn_arg>>

SpecPrev == InitPrev /\ [][ApplyPrev]_vars

----------------------------------------------------------------------------
(* Properties.                                                             *)

\* the history file now, and the history it held when the run started
FileNow == [exists |-> fileExists, cells |-> file]
Persisted == LoadHistorial(fileExists, file)
Persisted0 == LoadHistorial(file0.exists, file0.cells)

\* C1 (Spec): when the previous run ended DONE and this run reads the same
\* calendar date, this run finds the front record dated today, ends as a skip
\* and leaves the file alone, and the persisted history holds exactly one
\* record more than the history the previous run loaded.
C1_SecondRunSkips ==
    (prevRun.outcome = "DONE" /\ fecha_hoy[1] = prevRun.fecha) =>
        /\ pc[1] = "SKIPPED_DUPLICATE_DAY"
        /\ historial[1] # << >>
        /\ historial[1][1].fecha = fecha_hoy[1]
        /\ calls[1] = 0
        /\ FileNow = file0
        /\ Persisted.ok
        /\ Len(Persisted.hist) = prevRun.len0 + 1

\* C1: a run has skipped on the date on which the run before it ended DONE
C1_Witness ==
    /\ prevRun.outcome = "DONE"
    /\ fecha_hoy[1] = prevRun.fecha
    /\ pc[1] = "SKIPPED_DUPLICATE_DAY"
    /\ prevRun.len0 >= 1

\* C2 (Spec): the persisted history, which starts empty, never holds two
\* records with the same fecha, whatever runs succeeded, skipped or failed.
C2_DateUnique ==
    Persisted.ok =>
        \A i, j \in 1..Len(Persisted.hist) :
            i # j => Persisted.hist[i].fecha # Persisted.hist[j].fecha

\* C2: a run has skipped over a persisted history of two days or more
C2_Witness ==
    /\ Persisted.ok
    /\ Len(Persisted.hist) >= 2
    /\ pc[1] = "SKIPPED_DUPLICATE_DAY"

\* C3 (Spec): the record a successful run writes is numbered one more than
\* the front record of the history it loaded, or 1 when that was empty; and
\* the dia values of every persisted history count down by one from front to
\* back and end at 1.
C3_DayNumbering ==
    /\ pc[1] = "DONE" =>
          /\ Persisted.ok
          /\ Persisted.hist # << >>
          /\ Persisted.hist[1].dia =
                IF Persisted0.hist = << >> THEN 1 ELSE Persisted0.hist[1].dia + 1
    /\ Persisted.ok =>
          \A i \in 1..Len(Persisted.hist) :
              Persisted.hist[i].dia = Len(Persisted.hist) - i + 1

\* C3: a run has written the third day
C3_Witness ==
    /\ pc[1] = "DONE"
    /\ Persisted.ok
    /\ Len(Persisted.hist) >= 3

\* C4 (SpecParse): whatever parse_response returns has "preguntas" and
\* "mensaje_burla", exactly 3 questions, each with its three fields, 2 or 3
\* options and a respuesta_correcta that is an integer within the options.
C4_AllOrNothing ==
    (fn_done /\ fn_ret.ok) =>
        /\ fn_ret.data.t = "object"
        /\ fn_ret.data.preguntas.t = "list"
        /\ fn_ret.data.mensaje_burla.t = "str"
        /\ Len(fn_ret.data.preguntas.items) = 3
        /\ \A i \in 1..Len(fn_ret.data.preguntas.items) :
              LET q == fn_ret.data.preguntas.items[i]
              IN  /\ q.pregunta.t = "str"
                  /\ q.opciones.t = "list"
                  /\ Len(q.opciones.items) \in {2, 3}
                  /\ q.respuesta_correcta.t = "int"
                  /\ q.respuesta_correcta.v >= 0
                  /\ q.respuesta_correcta.v < Len(q.opciones.items)

\* C5 (Spec): a run that is interrupted leaves in the file either the whole
\* history the file held before the run or the whole new history.
C5_AtomicSave ==
    pc[1] = "INTERRUPTED" =>
        \/ FileNow = file0
        \/ (fileExists /\ file = JsonDump(historial[1]))

\* the texts of the questions of a history, day after day, front to back
AllQuestions(h) ==
    Flatten([d \in 1..Len(h) |->
                IF h[d].preguntas.t = "list"
                THEN [i \in 1..Len(h[d].preguntas.items) |-> h[d].preguntas.items[i].pregunta]
                ELSE << >>])

\* C6 (SpecPrev): get_previous_questions returns the first min(60, total)
\* question texts of the flattened history, never more than 60, and exactly
\* 60 when the history holds more than 60.
C6_FirstSixty ==
    fn_done =>
        LET all == AllQuestions(fn_arg)
        IN  /\ Len(fn_ret) = IF Len(all) < 60 THEN Len(all) ELSE 60
            /\ \A i \in 1..Len(fn_ret) : fn_ret[i] = all[i]
            /\ Len(fn_ret) <= 60
            /\ (Len(all) > 60 => Len(fn_ret) = 60)

\* C6: get_previous_questions has cut a history of 62 questions to 60
C6_Witness ==
    /\ fn_done
    /\ Len(AllQuestions(fn_arg)) = 62
    /\ Len(fn_ret) = 60


\* the index of the first token of the line token i is on
LineStart(t, i) ==
    CHOOSE j \in 1..i :
        /\ j = 1 \/ t[j - 1].c = "\n"
        /\ \A k \in j..(i - 1) : t[k].c # "\n"

\* the index of the last token of the line token i is on, its line break aside
LineEnd(t, i) ==
    CHOOSE j \in (i - 1)..Len(t) :
        /\ j = Len(t) \/ t[j + 1].c = "\n"
        /\ \A k \in i..j : t[k].c # "\n"

NotSpace(tok) == ~ IsSpace(tok)

\* token i is on a line that is a fence marker and nothing else: the fence,
\* with or without a language word, and spaces
OnPureFenceLine(t, i) ==
    LET words == SelectSeq(SubSeq(t, LineStart(t, i), LineEnd(t, i)), NotSpace)
    IN  words = <<FENCE>> \/ words = <<FENCE, WORD>>

\* token i is on a line whose first token, spaces aside, is the fence
OnFenceLine(t, i) ==
    \E j \in LineStart(t, i)..Len(t) :
        /\ t[j].c = "fence"
        /\ \A k \in LineStart(t, i)..(j - 1) : t[k].c = " "

\* the first token of the text, white space aside, is the fence
BeginsWithFence(t) ==
    \E j \in 1..Len(t) :
        /\ t[j].c = "fence"
        /\ \A k \in 1..(j - 1) : IsSpace(t[k])

\* what parsing gives when the tokens at the indices 'removed' are taken out
\* of the text: the validated document if a single document is all that is
\* left, white space aside, and a JSON error otherwise
ParsedWithout(t, removed) ==
    LET left == {i \in 1..Len(t) : ~ IsSpace(t[i]) /\ i \notin removed}
    IN  IF \E i \in left : left = {i} /\ t[i].c = "doc"
        THEN Validate(t[CHOOSE i \in left : TRUE].data)
        ELSE Err("JSONDecodeError")

\* C7 as claimed (SpecFence): parse_response parses the text without its
\* lines that are purely a fence marker, wherever they are in the text.
C7_FenceAnywhere ==
    fn_done =>
        fn_ret = ParsedWithout(fn_arg, {i \in 1..Len(fn_arg) : OnPureFenceLine(fn_arg, i)})

\* C7 as amended (SpecFence): when the text, white space aside, begins with a
\* fence, parse_response parses the text without its lines that begin with a
\* fence, spaces aside; when it does not, no line is removed.
C7_FenceLeading ==
    fn_done =>
        fn_ret = IF BeginsWithFence(fn_arg)
                 THEN ParsedWithout(fn_arg, {i \in 1..Len(fn_arg) : OnFenceLine(fn_arg, i)})
                 ELSE ParsedWithout(fn_arg, {})

\* C7: a valid answer between an opening and a closing fence line is parsed
C7_Witness ==
    /\ fn_done
    /\ fn_arg = <<FENCE, WORD, NL, Doc(GoodData(1)), NL, FENCE>>
    /\ fn_ret = Ok(GoodData(1))

\* C8 (Spec): a run that ends without a credential, as a skip, on a failed
\* call or on a rejected answer (or on a history file it cannot parse) leaves
\* the file as it found it; a run that ends DONE leaves one new record
\* followed by the records it found.
C8_AppendOnly ==
    /\ pc[1] \in {"FAILED_NO_CREDENTIAL", "SKIPPED_DUPLICATE_DAY", "FAILED_TRANSPORT",
                  "FAILED_VALIDATION", "FAILED_STORAGE"} => FileNow = file0
    /\ pc[1] = "DONE" =>
          /\ Persisted.ok
          /\ Len(Persisted.hist) = Len(Persisted0.hist) + 1
          /\ Tail(Persisted.hist) = Persisted0.hist
          /\ Persisted.hist[1].fecha = fecha_hoy[1]

\* C8: a run has ended DONE over a history of two days or more
C8_Witness ==
    /\ pc[1] = "DONE"
    /\ Len(Persisted0.hist) >= 2

\* C9 (Spec): a run calls the model at most once, and only with the
\* credential set and a loaded history whose front record is not dated today;
\* a run that ends without a credential or as a skip has not called it, and a
\* run that ends on a failed call or a rejected answer has called it once.
C9_CallGating ==
    /\ calls[1] <= 1
    /\ calls[1] = 1 =>
          /\ env_key[1]
          /\ Persisted0.ok
          /\ Persisted0.hist = << >> \/ Persisted0.hist[1].fecha # fecha_hoy[1]
    /\ pc[1] \in {"FAILED_NO_CREDENTIAL", "SKIPPED_DUPLICATE_DAY"} => calls[1] = 0
    /\ pc[1] \in {"FAILED_TRANSPORT", "FAILED_VALIDATION"} => calls[1] = 1

\* C9: the one call of a run over a non-empty history has failed
C9_Witness ==
    /\ pc[1] = "FAILED_TRANSPORT"
    /\ calls[1] = 1
    /\ Persisted0.hist # << >>

\* C10 (SpecConc): once both instances have ended, the file holds a history
\* with at most one record dated today, and when both ended DONE it holds
\* the history of one of them, whole.
C10_LaterWriterWins ==
    (\A p \in Procs : pc[p] \in Terminal) =>
        /\ Persisted.ok
        /\ Cardinality({i \in 1..Len(Persisted.hist) :
                           Persisted.hist[i].fecha = FechaAt(now)}) <= 1
        /\ (\A p \in Procs : pc[p] = "DONE") =>
               \E p \in Procs : file = JsonDump(historial[p])

====
